---- MODULE Spec2Model ----
(***************************************************************************)
(* display-tuner: the Topology Reader (enumerate_displays) and the         *)
(* Configuration Applier (apply_display_config) of src/src/display.rs, and *)
(* the command-line driver of src/src/main.rs, over a model of the OS      *)
(* display-configuration API they call.                                    *)
(*                                                                         *)
(* Every operation is one atomic action (the program is single-threaded).  *)
(* The OS calls an operation issues are recorded, in order, in last.calls. *)
(* A Rust panic (unwrap on None, index out of bounds, arithmetic overflow  *)
(* under overflow checks) is the outcome kind "Panic": the call does not   *)
(* return to its caller.                                                   *)
(***************************************************************************)
EXTENDS Integers, Sequences, FiniteSets, TLC

VARIABLES
    os,               \* the live OS display configuration (global, external)
    displays,         \* DisplayTuner.displays: the snapshots of the last successful enumeration
    overflow_checks,  \* build profile: TRUE = integer overflow panics (debug), FALSE = wraps (release)
    last              \* the last operation: its inputs, outcome and the OS calls it issued

vars == <<os, displays, overflow_checks, last>>

----------------------------------------------------------------------------
(* Machine integers *)

\* usize arithmetic is modular.  The model checker's integers are 32-bit, so
\* the word is modelled 30 bits wide; every value below is far smaller than
\* the modulus, so the wrap-arounds are those of a 32- or 64-bit word.
UsizeModulus == 2^30

\* `x as usize` for an i32 x: sign-extending two's-complement cast
AsUsize(x) == x % UsizeModulus

\* i32::unsigned_abs
UnsignedAbs(x) == IF x < 0 THEN -x ELSE x

\* usize::wrapping_add
WrappingAdd(a, b) == (a + b) % UsizeModulus

\* DISPLAYCONFIG_PATH_MODE_IDX_INVALID (0xFFFF_FFFF), scaled to the modelled word
ModeIdxInvalid == UsizeModulus - 1

----------------------------------------------------------------------------
(* Constants and outcomes *)

DPI_VALUES == <<100, 125, 150, 175, 200, 225, 250, 300, 350, 400, 450, 500>>

Ok == [kind |-> "Ok"]
Err(m) == [kind |-> "Err", msg |-> m]
Panic(m) == [kind |-> "Panic", msg |-> m]

\* Option<T> as a set with at most one element
None == {}
Some(v) == {v}
UnwrapOr(o, d) == IF o = {} THEN d ELSE CHOOSE v \in o : TRUE

\* Iterator::position: the 0-based index of the first element equal to v, as an Option
Position(seq, v) ==
    LET hits == {i \in 1..Len(seq) : seq[i] = v}
    IN  IF hits = {} THEN None
        ELSE Some((CHOOSE i \in hits : \A j \in hits : i <= j) - 1)

\* Iterator::find over the path buffer: the 1-based position of the first path
\* whose source id is id, 0 when there is none
FindPath(paths, id) ==
    LET hits == {i \in 1..Len(paths) : paths[i].sourceId = id}
    IN  IF hits = {} THEN 0 ELSE CHOOSE i \in hits : \A j \in hits : i <= j

----------------------------------------------------------------------------
(* The OS display-configuration API (the environment) *)

\* Largest relative DPI offset (max_scale_rel) the modelled monitors report
MaxRel == 1

\* Source ids of the displays that can be attached
SourceIds == {0, 1}

\* The framebuffer modes the monitor behind a source id supports
SupportedModes(id) ==
    IF id = 0 THEN {<<1920, 1080>>, <<3840, 2160>>} ELSE {<<1920, 1080>>}

DpiReply(mn, cur, mx) == [min |-> mn, cur |-> cur, max |-> mx]

\* The (min, current, max) offsets the DPI query can report for a source id.
\* Display 0: recommended 100% (min 0) or 150% (min -2), at any current offset
\* in min..max; and two replies of an OS whose catalog has outgrown
\* DPI_VALUES: recommended index 12 with current index 11, and current index 12.
\* Display 1: only its recommended 100%.
DpiReplies(id) ==
    IF id = 0
    THEN {DpiReply(0, c, MaxRel) : c \in 0..MaxRel}
         \cup {DpiReply(-2, c, MaxRel) : c \in (-2)..MaxRel}
         \cup {DpiReply(-12, -1, 0), DpiReply(-2, 10, 10)}
    ELSE {DpiReply(0, 0, 0)}

Absent == [present |-> FALSE]
Attached(id) ==
    {[present |-> TRUE, res |-> r, dpi |-> q] : r \in SupportedModes(id), q \in DpiReplies(id)}

TargetMode == [infoType |-> "TARGET", width |-> 0, height |-> 0]
SourceMode(r) == [infoType |-> "SOURCE", width |-> r[1], height |-> r[2]]

\* The buffers QueryDisplayConfig fills for a topology: two paths that carry no
\* framebuffer come first (one without mode information, one whose index names
\* a target mode); then one path per attached display, each with its target
\* mode followed by its source mode in the mode buffer.
MkOs(d0, d1) ==
    LET m0 == IF d0.present THEN <<TargetMode, SourceMode(d0.res)>> ELSE <<>>
        m1 == IF d1.present THEN <<TargetMode, SourceMode(d1.res)>> ELSE <<>>
        n  == <<[sourceId |-> 2, targetId |-> 2, modeInfoIdx |-> ModeIdxInvalid],
                [sourceId |-> 3, targetId |-> 3, modeInfoIdx |-> 0]>>
        p0 == IF d0.present
              THEN <<[sourceId |-> 0, targetId |-> 0, modeInfoIdx |-> 1]>> ELSE <<>>
        p1 == IF d1.present
              THEN <<[sourceId |-> 1, targetId |-> 1, modeInfoIdx |-> Len(m0) + 1]>> ELSE <<>>
    IN  [paths |-> n \o p0 \o p1,
         modes |-> m0 \o m1,
         dpi   |-> [id \in SourceIds |->
                      IF id = 0 /\ d0.present THEN d0.dpi
                      ELSE IF id = 1 /\ d1.present THEN d1.dpi
                      ELSE DpiReply(0, 0, 0)]]

OsStates ==
    {MkOs(d0, d1) : d0 \in Attached(0) \cup {Absent}, d1 \in Attached(1)}

\* The status code each kind of OS call returns during one operation (0 = success).
AllOk == [sizes |-> 0, query |-> 0, name |-> 0, dpiget |-> 0, commit |-> 0, dpiset |-> 0]
Failing(fields) == {AllOk} \cup {[AllOk EXCEPT ![f] = 31] : f \in fields}

\* SetDisplayConfig(SDC_APPLY | SDC_USE_SUPPLIED_DISPLAY_CONFIG): the OS takes
\* the supplied configuration only if every path's source mode is one its
\* monitor supports (87 = ERROR_INVALID_PARAMETER otherwise).
OsAcceptsConfig(paths, modes) ==
    \A i \in 1..Len(paths) :
        LET idx == paths[i].modeInfoIdx
        IN  (idx < Len(modes) /\ modes[idx + 1].infoType = "SOURCE")
            => <<modes[idx + 1].width, modes[idx + 1].height>> \in SupportedModes(paths[i].sourceId)

OsSetDisplayConfig(o, paths, modes, st) ==
    LET status == IF st.commit # 0 THEN st.commit
                  ELSE IF OsAcceptsConfig(paths, modes) THEN 0 ELSE 87
    IN  [status |-> status,
         os |-> IF status = 0 THEN [o EXCEPT !.paths = paths, !.modes = modes] ELSE o]

\* DisplayConfigSetDeviceInfo(type -4): the OS stores the relative offset as
\* the source's current one if it lies within the reported min..max.
OsSetDpi(o, id, scale_rel, st) ==
    LET q == o.dpi[id]
        status == IF st.dpiset # 0 THEN st.dpiset
                  ELSE IF q.min <= scale_rel /\ scale_rel <= q.max THEN 0 ELSE 87
    IN  [status |-> status,
         os |-> IF status = 0 THEN [o EXCEPT !.dpi[id].cur = scale_rel] ELSE o]

----------------------------------------------------------------------------
(* src/src/display.rs *)

\* get_display_config: the two OS calls, each bailing on a non-zero status
GetDisplayConfig(o, st) ==
    IF st.sizes # 0
    THEN [result |-> Err("Failed to get display config buffer sizes"),
          calls  |-> <<[op |-> "GetDisplayConfigBufferSizes", status |-> st.sizes]>>]
    ELSE IF st.query # 0
    THEN [result |-> Err("Failed to query display config"),
          calls  |-> <<[op |-> "GetDisplayConfigBufferSizes", status |-> 0],
                       [op |-> "QueryDisplayConfig", status |-> st.query,
                        paths |-> <<>>, modes |-> <<>>]>>]
    ELSE [result |-> Ok, paths |-> o.paths, modes |-> o.modes,
          calls  |-> <<[op |-> "GetDisplayConfigBufferSizes", status |-> 0],
                       [op |-> "QueryDisplayConfig", status |-> 0,
                        paths |-> o.paths, modes |-> o.modes]>>]

\* get_display_name_from_path: format!("{} ({})", source id, monitor name)
GetDisplayNameFromPath(path, st) ==
    LET call == [op |-> "GetTargetName", id |-> path.targetId, status |-> st.name]
    IN  IF st.name = 0
        THEN [result |-> Ok, name |-> <<path.sourceId, "Monitor">>, calls |-> <<call>>]
        ELSE [result |-> Err("Failed to get monitor friendly name"), calls |-> <<call>>]

\* The index arithmetic of get_display_scaling_from_path on a DPI-query reply:
\*   min_abs   = min_scale_rel.unsigned_abs() as usize
\*   cur_index = min_abs.wrapping_add(cur_scale_rel as usize)
\*   rec_index = cur_index - cur_scale_rel as usize     (overflow-checked in debug builds)
\*   DPI_VALUES[cur_index], DPI_VALUES[rec_index] if cur_index < DPI_VALUES.len()
ScalingFromReply(q, oc) ==
    LET min_abs   == UnsignedAbs(q.min)
        cur_usize == AsUsize(q.cur)
        cur_index == WrappingAdd(min_abs, cur_usize)
        rec_index == (cur_index - cur_usize) % UsizeModulus
    IN  IF oc /\ cur_index < cur_usize
        THEN Panic("attempt to subtract with overflow")
        ELSE IF cur_index < Len(DPI_VALUES)
        THEN IF rec_index < Len(DPI_VALUES)
             THEN [kind |-> "Ok", cur |-> DPI_VALUES[cur_index + 1],
                   rec |-> DPI_VALUES[rec_index + 1]]
             ELSE Panic("index out of bounds")
        ELSE Err("DPI index out of range")

\* get_display_scaling_from_path: the DPI query, then the index arithmetic
GetDisplayScalingFromPath(o, path, st, oc) ==
    LET q   == o.dpi[path.sourceId]
        res == IF st.dpiget # 0 THEN Err("Failed to get DPI info")
               ELSE ScalingFromReply(q, oc)
    IN  [result |-> res,
         calls  |-> <<[op |-> "DpiGet", id |-> path.sourceId, status |-> st.dpiget,
                       reply |-> q, res |-> res]>>]

\* enumerate_displays, the loop over the paths from path i on
RECURSIVE EnumerateFrom(_, _, _, _, _, _, _, _)
EnumerateFrom(o, paths, modes, i, acc, calls, st, oc) ==
    IF i > Len(paths)
    THEN [result |-> Ok, displays |-> acc, calls |-> calls]
    ELSE
      LET path == paths[i]
          source_mode_idx == path.modeInfoIdx
      IN  IF source_mode_idx = ModeIdxInvalid \/ source_mode_idx >= Len(modes)
          THEN EnumerateFrom(o, paths, modes, i + 1, acc, calls, st, oc)
          ELSE IF modes[source_mode_idx + 1].infoType # "SOURCE"
          THEN EnumerateFrom(o, paths, modes, i + 1, acc, calls, st, oc)
          ELSE
            LET mode == modes[source_mode_idx + 1]
                nm   == GetDisplayNameFromPath(path, st)
            IN  IF nm.result.kind # "Ok"
                THEN [result |-> nm.result, displays |-> <<>>, calls |-> calls \o nm.calls]
                ELSE
                  LET sc == GetDisplayScalingFromPath(o, path, st, oc)
                  IN  IF sc.result.kind # "Ok"
                      THEN [result |-> [kind |-> sc.result.kind, msg |-> sc.result.msg],
                            displays |-> <<>>,
                            calls |-> calls \o nm.calls \o sc.calls]
                      ELSE EnumerateFrom(o, paths, modes, i + 1,
                             Append(acc, [friendly_name |-> nm.name,
                                          source_id |-> path.sourceId,
                                          width |-> mode.width,
                                          height |-> mode.height,
                                          scaling_current |-> sc.result.cur,
                                          scaling_recommended |-> sc.result.rec]),
                             calls \o nm.calls \o sc.calls, st, oc)

\* enumerate_displays
EnumerateDisplays(o, st, oc) ==
    LET cfg == GetDisplayConfig(o, st)
    IN  IF cfg.result.kind # "Ok"
        THEN [result |-> cfg.result, displays |-> <<>>, calls |-> cfg.calls]
        ELSE EnumerateFrom(o, cfg.paths, cfg.modes, 1, <<>>, cfg.calls, st, oc)

\* A faulty write into the fetched mode buffer: every source mode gets the
\* desired width and height
MutateAllModes(modes, mode_idx, config) ==
    [j \in 1..Len(modes) |->
        IF modes[j].infoType = "SOURCE"
        THEN [modes[j] EXCEPT !.width = config.width, !.height = config.height]
        ELSE modes[j]]

\* The write into the fetched mode buffer: the width and height of the entry
\* at mode_idx become the desired ones
MutateMode(modes, mode_idx, config) ==
    [modes EXCEPT ![mode_idx + 1].width = config.width,
                  ![mode_idx + 1].height = config.height]

\* apply_display_resolution: re-query, find the path by source id (unwrap),
\* overwrite the width and height of the mode its index names, commit all
\* buffers.  Returns the outcome, the OS state after the call and the calls.
ApplyDisplayResolution(o, display, config, st) ==
    LET cfg == GetDisplayConfig(o, st)
    IN  IF cfg.result.kind # "Ok"
        THEN [result |-> cfg.result, os |-> o, calls |-> cfg.calls]
        ELSE
          LET pi == FindPath(cfg.paths, display.source_id)
          IN  IF pi = 0
              THEN [result |-> Panic("called Option::unwrap() on a None value"),
                    os |-> o, calls |-> cfg.calls]
              ELSE
                LET mode_idx == cfg.paths[pi].modeInfoIdx
                IN  IF mode_idx >= Len(cfg.modes)
                    THEN [result |-> Panic("index out of bounds"),
                          os |-> o, calls |-> cfg.calls]
                    ELSE
                      LET modes == MutateMode(cfg.modes, mode_idx, config)
                          set   == OsSetDisplayConfig(o, cfg.paths, modes, st)
                          calls == Append(cfg.calls,
                                     [op |-> "SetDisplayConfig", status |-> set.status,
                                      paths |-> cfg.paths, modes |-> modes])
                      IN  IF set.status # 0
                          THEN [result |-> Err("Failed to set display configuration"),
                                os |-> set.os, calls |-> calls]
                          ELSE [result |-> Ok, os |-> set.os, calls |-> calls]

\* A faulty choice of the recommended percentage: the stale snapshot's
RecommendedFromSnapshot(display, current_scale) == display.scaling_recommended

\* The recommended percentage the offset is computed against: the second
\* component of the scaling just re-derived (current_scale.1)
RecommendedScale(display, current_scale) == current_scale.rec

\* apply_display_scaling: re-query, find the path by source id (unwrap),
\* re-derive the recommended scaling, look both percentages up in the catalog
\* (unwrap) and set the relative offset target - recommended.
ApplyDisplayScaling(o, display, config, st, oc) ==
    LET cfg == GetDisplayConfig(o, st)
    IN  IF cfg.result.kind # "Ok"
        THEN [result |-> cfg.result, os |-> o, calls |-> cfg.calls]
        ELSE
          LET pi == FindPath(cfg.paths, display.source_id)
          IN  IF pi = 0
              THEN [result |-> Panic("called Option::unwrap() on a None value"),
                    os |-> o, calls |-> cfg.calls]
              ELSE
                LET sc == GetDisplayScalingFromPath(o, cfg.paths[pi], st, oc)
                    c1 == cfg.calls \o sc.calls
                IN  IF sc.result.kind # "Ok"
                    THEN [result |-> [kind |-> sc.result.kind, msg |-> sc.result.msg],
                          os |-> o, calls |-> c1]
                    ELSE
                      LET recommoned_scale_idx ==
                              Position(DPI_VALUES, RecommendedScale(display, sc.result))
                          target_scale_idx     == Position(DPI_VALUES, config.scaling)
                      IN  IF recommoned_scale_idx = None \/ target_scale_idx = None
                          THEN [result |-> Panic("called Option::unwrap() on a None value"),
                                os |-> o, calls |-> c1]
                          ELSE
                            LET scale_rel == UnwrapOr(target_scale_idx, 0)
                                             - UnwrapOr(recommoned_scale_idx, 0)
                                set   == OsSetDpi(o, display.source_id, scale_rel, st)
                                calls == Append(c1,
                                           [op |-> "DpiSet", id |-> display.source_id,
                                            scale_rel |-> scale_rel, status |-> set.status])
                            IN  IF set.status # 0
                                THEN [result |-> Err("Failed to set DPI scaling"),
                                      os |-> set.os, calls |-> calls]
                                ELSE [result |-> Ok, os |-> set.os, calls |-> calls]

\* Two updates in sequence: the outcome and OS state of the second, the calls
\* of both
Sequenced(r1, r2) ==
    [result |-> r2.result, os |-> r2.os, calls |-> r1.calls \o r2.calls]

\* apply_display_config after the resolution update r1: its failure is
\* returned (the ? operator), otherwise the scaling update runs if the scaling
\* differs
ThenScaling(r1, scaling_changed, display, config, st, oc) ==
    IF r1.result.kind # "Ok" \/ ~scaling_changed
    THEN r1
    ELSE Sequenced(r1, ApplyDisplayScaling(r1.os, display, config, st, oc))

\* A faulty apply_display_config: no diff against the snapshot, both updates
\* always run
ApplyDisplayConfigAlways(o, display, config, st, oc) ==
    ThenScaling(ApplyDisplayResolution(o, display, config, st),
                TRUE, display, config, st, oc)

\* apply_display_config: diff the desired config against the snapshot, return
\* Ok if nothing differs, else the resolution update and the scaling update,
\* each only if its part differs
ApplyDisplayConfig(o, display, config, st, oc) ==
    LET resolution_changed == display.width # config.width \/ display.height # config.height
        scaling_changed    == display.scaling_current # config.scaling
    IN  IF ~resolution_changed /\ ~scaling_changed
        THEN [result |-> Ok, os |-> o, calls |-> <<>>]
        ELSE ThenScaling(IF resolution_changed
                         THEN ApplyDisplayResolution(o, display, config, st)
                         ELSE [result |-> Ok, os |-> o, calls |-> <<>>],
                         scaling_changed, display, config, st, oc)

----------------------------------------------------------------------------
(* src/src/main.rs *)

\* A faulty selection: neither --id nor --all selects nothing
SelectDisplaysOrNone(ds, args) ==
    IF ~args.all /\ args.id # None
    THEN SelectSeq(ds, LAMBDA d : d.source_id = UnwrapOr(args.id, 0))
    ELSE IF ~args.all THEN <<>> ELSE ds

\* The displays the set command applies to: all of them with --all or without
\* --id, those with the given source id otherwise (Vec::retain)
SelectDisplays(ds, args) ==
    IF ~args.all /\ args.id # None
    THEN SelectSeq(ds, LAMBDA d : d.source_id = UnwrapOr(args.id, 0))
    ELSE ds

\* The DisplayConfig built for one display: each option defaults to the
\* display's current value
TargetConfig(disp, args) ==
    [width   |-> UnwrapOr(args.width, disp.width),
     height  |-> UnwrapOr(args.height, disp.height),
     scaling |-> UnwrapOr(args.scaling, disp.scaling_current)]

\* The loop applying the target to each selected display, ended by the first
\* apply that does not return Ok
RECURSIVE ApplyEach(_, _, _, _, _, _, _, _)
\* The ? on apply_display_config's result r for display i: return its failure,
\* else go on with the next display
AfterApply(r, ds, i, args, st, oc, calls, applied) ==
    IF r.result.kind # "Ok"
    THEN [result |-> r.result, os |-> r.os, calls |-> calls \o r.calls, applied |-> applied]
    ELSE ApplyEach(r.os, ds, i + 1, args, st, oc, calls \o r.calls, applied)

\* for disp in &displays { ... }, from display i on
ApplyEach(o, ds, i, args, st, oc, calls, applied) ==
    IF i > Len(ds)
    THEN [result |-> Ok, os |-> o, calls |-> calls, applied |-> applied]
    ELSE AfterApply(ApplyDisplayConfig(o, ds[i], TargetConfig(ds[i], args), st, oc),
                    ds, i, args, st, oc, calls, Append(applied, ds[i].source_id))

\* main, Commands::Set, with the selection sel of a successful enumeration e:
\* refuse an empty selection, apply to each selected display
SetSelected(o, e, sel, args, st, oc) ==
    IF sel = <<>>
    THEN [result |-> Err("No matching displays found"), os |-> o, calls |-> e.calls,
          selected |-> sel, applied |-> <<>>]
    ELSE [selected |-> sel] @@ ApplyEach(o, sel, 1, args, st, oc, e.calls, <<>>)

\* main, Commands::Set, after the enumeration e: its failure is returned
SetEnumerated(o, e, args, st, oc) ==
    [enumerated |-> e] @@
    (IF e.result.kind # "Ok"
     THEN [result |-> e.result, os |-> o, calls |-> e.calls,
           selected |-> <<>>, applied |-> <<>>]
     ELSE SetSelected(o, e, SelectDisplays(e.displays, args), args, st, oc))

\* main, Commands::Set
MainSetRun(o, args, st, oc) ==
    SetEnumerated(o, EnumerateDisplays(o, st, oc), args, st, oc)

----------------------------------------------------------------------------
(* The state machine *)

\* The desired configurations a caller passes to apply (120 is no catalog member)
DesiredScalings == {100, 120, 175}
DesiredResolutions == {<<1920, 1080>>, <<3840, 2160>>, <<3840, 1080>>}
Configs ==
    {[width |-> r[1], height |-> r[2], scaling |-> s] :
        r \in DesiredResolutions, s \in DesiredScalings}

\* The arguments of the set command
SetArgs ==
    [id      : {None, Some(0)},
     all     : BOOLEAN,
     width   : {None, Some(3840)},
     height  : {None},
     scaling : {None, Some(175)}]

\* DisplayTuner::default(), on any OS state, built with either profile
Init ==
    /\ os \in OsStates
    /\ displays = <<>>
    /\ overflow_checks \in BOOLEAN
    /\ last = [op |-> "init"]

\* What an enumeration remembers of an apply call that directly preceded it
\* on an accurate snapshot and returned Ok
PrevApply ==
    IF last.op = "apply" /\ last.accurate /\ last.result.kind = "Ok"
    THEN [applied |-> TRUE, source_id |-> last.display.source_id, config |-> last.config]
    ELSE [applied |-> FALSE]

\* A caller calls enumerate_displays
\* The effect of an enumeration with outcome r: self.displays is replaced on
\* success only
EnumerateDone(r) ==
    /\ displays' = IF r.result.kind = "Ok" THEN r.displays ELSE displays
    /\ last' = [op |-> "enumerate", result |-> r.result, displays |-> r.displays,
                calls |-> r.calls, prev |-> PrevApply]
    /\ UNCHANGED <<os, overflow_checks>>

Enumerate ==
    \E st \in Failing({"sizes", "query", "name", "dpiget"}) :
        EnumerateDone(EnumerateDisplays(os, st, overflow_checks))

\* The enumeration e succeeded and lists the snapshot display
Reports(e, display) ==
    e.result.kind = "Ok" /\ \E k \in 1..Len(e.displays) : e.displays[k] = display

\* The snapshot is what an enumeration of the OS state o reports: nothing has
\* changed the display's configuration since the snapshot was taken
SnapshotAccurate(o, display, oc) == Reports(EnumerateDisplays(o, AllOk, oc), display)

\* A caller calls apply_display_config with a snapshot it holds from the last
\* enumeration
\* The effect of an apply with outcome r
ApplyDone(display, config, r) ==
    /\ os' = r.os
    /\ last' = [op |-> "apply", display |-> display, config |-> config,
                result |-> r.result, calls |-> r.calls,
                accurate |-> SnapshotAccurate(os, display, overflow_checks),
                os_changed |-> (r.os # os)]
    /\ UNCHANGED <<displays, overflow_checks>>

Apply ==
    \E i \in 1..Len(displays), config \in Configs,
       st \in Failing({"query", "dpiget"}) :
        ApplyDone(displays[i], config,
                  ApplyDisplayConfig(os, displays[i], config, st, overflow_checks))

\* display-tuner set ...
\* The effect of the set command with outcome r
MainSetDone(args, r) ==
    /\ os' = r.os
    /\ displays' = IF r.enumerated.result.kind = "Ok"
                   THEN r.enumerated.displays ELSE displays
    /\ last' = [op |-> "main_set", args |-> args, result |-> r.result,
                calls |-> r.calls, enumerated |-> r.enumerated.displays,
                enumerate_result |-> r.enumerated.result,
                selected |-> r.selected, applied |-> r.applied,
                os_changed |-> (r.os # os)]
    /\ UNCHANGED overflow_checks

MainSet ==
    \E args \in SetArgs, st \in Failing({"commit"}) :
        MainSetDone(args, MainSetRun(os, args, st, overflow_checks))

\* display-tuner list
\* The effect of the list command with enumeration outcome r
MainListDone(r) ==
    /\ displays' = IF r.result.kind = "Ok" THEN r.displays ELSE displays
    /\ last' = [op |-> "main_list", result |-> r.result, calls |-> r.calls]
    /\ UNCHANGED <<os, overflow_checks>>

MainList ==
    \E st \in Failing({"sizes", "query", "name", "dpiget"}) :
        MainListDone(EnumerateDisplays(os, st, overflow_checks))

\* Another actor (the user, another process, a cable) changes the OS state
ExternalChange ==
    /\ os' \in OsStates \ {os}
    /\ last' = [op |-> "external"]
    /\ UNCHANGED <<displays, overflow_checks>>

Next ==
    \/ Enumerate
    \/ Apply
    \/ MainSet
    \/ MainList
    \/ ExternalChange

Spec == Init /\ [][Next]_vars

----------------------------------------------------------------------------
(* Reading the record of the last operation *)

IsApply == last.op = "apply"
LastCalls == IF last.op \in {"init", "external"} THEN <<>> ELSE last.calls
CallsOf(opname) == {k \in 1..Len(LastCalls) : LastCalls[k].op = opname}
Commits == CallsOf("SetDisplayConfig")
DpiSets == CallsOf("DpiSet")
DpiGets == CallsOf("DpiGet")
Queries == CallsOf("QueryDisplayConfig")

InCatalog(v) == \E i \in 1..Len(DPI_VALUES) : DPI_VALUES[i] = v
CatalogIndex(v) == (CHOOSE i \in 1..Len(DPI_VALUES) : DPI_VALUES[i] = v) - 1

ResolutionDiffers ==
    last.display.width # last.config.width \/ last.display.height # last.config.height
ScalingDiffers == last.display.scaling_current # last.config.scaling

\* The re-queried topology of the call holds no path with the snapshot's source id
DisplayVanished ==
    \E k \in Queries : LastCalls[k].status = 0
                       /\ FindPath(LastCalls[k].paths, last.display.source_id) = 0
DisplayFound ==
    \E k \in Queries : LastCalls[k].status = 0
                       /\ FindPath(LastCalls[k].paths, last.display.source_id) # 0

\* The source mode the live OS state holds for a source id
LiveMode(id) == os.modes[os.paths[FindPath(os.paths, id)].modeInfoIdx + 1]

----------------------------------------------------------------------------
(* The claims *)

\* C1: an apply whose desired scaling is no member of the DPI catalog ends in
\* a returned error, and neither SetDisplayConfig nor the DPI-set call has
\* been issued during it, also when the desired resolution differs.
C1_UnsupportedScalingFailsBeforeAnySet ==
    (IsApply /\ ~InCatalog(last.config.scaling))
        => /\ last.result.kind = "Err"
           /\ Commits = {}
           /\ DpiSets = {}

\* C2: an apply for a snapshot whose source id matches no path of the
\* re-queried topology, with some field differing, returns an error to its
\* caller (it does not abort) and issues neither a commit nor a DPI-set call.
C2_VanishedDisplayReturnsError ==
    (IsApply /\ (ResolutionDiffers \/ ScalingDiffers) /\ DisplayVanished)
        => /\ last.result.kind = "Err"
           /\ Commits = {}
           /\ DpiSets = {}

\* C3: an apply whose desired config equals the snapshot's width, height and
\* current scaling returns success, issues no commit and no DPI-set call and
\* leaves the OS configuration unchanged, whatever the live OS state is.
C3_NoopApply ==
    (IsApply /\ ~ResolutionDiffers /\ ~ScalingDiffers)
        => /\ last.result.kind = "Ok"
           /\ Commits = {}
           /\ DpiSets = {}
           /\ ~last.os_changed

\* C3 witness: a no-op apply on a snapshot the live OS state no longer matches
C3_Witness ==
    /\ IsApply /\ ~ResolutionDiffers /\ ~ScalingDiffers
    /\ ~last.accurate
    /\ last.result.kind = "Ok"

\* C4: an enumeration that directly follows a successful apply on an accurate
\* snapshot, with every OS call of the enumeration succeeding, returns for the
\* same source id a snapshot with the desired width, height and scaling.
C4_RoundTrip ==
    (/\ last.op = "enumerate"
     /\ last.prev.applied
     /\ \A k \in 1..Len(LastCalls) : LastCalls[k].status = 0)
        => /\ last.result.kind = "Ok"
           /\ \E k \in 1..Len(last.displays) :
                /\ last.displays[k].source_id = last.prev.source_id
                /\ last.displays[k].width = last.prev.config.width
                /\ last.displays[k].height = last.prev.config.height
                /\ last.displays[k].scaling_current = last.prev.config.scaling

\* C5: every DPI-query reply (min, current, max) with
\* 0 <= abs(min) + current < 12 resolves, without aborting, to the current
\* scaling catalog[abs(min) + current] and the recommended catalog[abs(min)].
C5_ScalingResolution ==
    \A k \in DpiGets :
        LET q == LastCalls[k].reply
            i == UnsignedAbs(q.min) + q.cur
        IN  (LastCalls[k].status = 0 /\ 0 <= i /\ i < Len(DPI_VALUES))
                => /\ LastCalls[k].res.kind = "Ok"
                   /\ LastCalls[k].res.cur = DPI_VALUES[i + 1]
                   /\ UnsignedAbs(q.min) < Len(DPI_VALUES)
                   /\ LastCalls[k].res.rec = DPI_VALUES[UnsignedAbs(q.min) + 1]

\* C6: every snapshot an enumeration returns has positive width and height and
\* catalog members as scalings, and an enumeration that received a DPI reply
\* with an index outside the catalog ends in a returned error.
C6_EnumeratedSnapshotsValid ==
    last.op = "enumerate"
        => /\ last.result.kind = "Ok"
                => \A k \in 1..Len(last.displays) :
                     /\ last.displays[k].width > 0
                     /\ last.displays[k].height > 0
                     /\ InCatalog(last.displays[k].scaling_current)
                     /\ InCatalog(last.displays[k].scaling_recommended)
           /\ (\E k \in DpiGets :
                 LET q == LastCalls[k].reply
                     i == UnsignedAbs(q.min) + q.cur
                 IN  /\ LastCalls[k].status = 0
                     /\ \/ i < 0
                        \/ i >= Len(DPI_VALUES)
                        \/ UnsignedAbs(q.min) >= Len(DPI_VALUES))
                => last.result.kind = "Err"

\* C7: the offset of every DPI-set call of an apply is
\* catalog_index(desired scaling) - catalog_index(R), R being the recommended
\* percentage a DPI query of the same source returned earlier in this call,
\* after a topology re-query; the snapshot's recommended value plays no part.
C7_OffsetAgainstLiveRecommended ==
    IsApply =>
        \A k \in DpiSets :
            \E q \in Queries, g \in DpiGets :
                /\ q < g /\ g < k
                /\ LastCalls[q].status = 0
                /\ LastCalls[g].status = 0
                /\ LastCalls[g].id = LastCalls[k].id
                /\ LastCalls[g].res.kind = "Ok"
                /\ LastCalls[k].scale_rel =
                       CatalogIndex(last.config.scaling) - CatalogIndex(LastCalls[g].res.rec)

\* C7 witness: live recommended 150, desired 175, offset 1, while the
\* snapshot holds another recommended value
C7_Witness ==
    /\ IsApply
    /\ last.config.scaling = 175
    /\ last.display.scaling_recommended = 100
    /\ \E k \in DpiSets, g \in DpiGets :
         /\ g < k
         /\ LastCalls[g].res.kind = "Ok"
         /\ LastCalls[g].res.rec = 150
         /\ LastCalls[k].scale_rel = 1
         /\ LastCalls[k].status = 0

\* C8: the set command given neither --id nor --all ends in an error, calls
\* apply for no display and leaves the OS configuration unchanged.
C8_SetWithoutSelectionIsUsageError ==
    (last.op = "main_set" /\ ~last.args.all /\ last.args.id = None)
        => /\ last.result.kind = "Err"
           /\ last.applied = <<>>
           /\ ~last.os_changed

\* C8, amended: the set command given neither --id nor --all selects every
\* enumerated display, as --all does: once the enumeration has succeeded with
\* at least one display, apply is called for the displays in enumeration
\* order, up to the first apply that does not return success, and for all of
\* them if the command succeeds.
C8_SetWithoutSelectionAppliesToAll ==
    (/\ last.op = "main_set" /\ ~last.args.all /\ last.args.id = None
     /\ last.enumerate_result.kind = "Ok" /\ last.enumerated # <<>>)
        => /\ last.selected = last.enumerated
           /\ last.applied # <<>>
           /\ Len(last.applied) <= Len(last.enumerated)
           /\ \A k \in 1..Len(last.applied) :
                last.applied[k] = last.enumerated[k].source_id
           /\ last.result.kind = "Ok" => Len(last.applied) = Len(last.enumerated)

\* C8 witness: set --scaling 175 without --id and --all has called apply for
\* both displays and changed the OS configuration
C8_Witness ==
    /\ last.op = "main_set" /\ ~last.args.all /\ last.args.id = None
    /\ last.args.scaling = Some(175)
    /\ Len(last.applied) = 2
    /\ last.os_changed

\* C9: an apply in which only the resolution differs and the display is found
\* issues exactly one commit and no DPI-set call, and the buffers it commits
\* are those of its own re-query except for the width and height of the one
\* mode entry the matching path's mode index names, which are the desired ones.
C9_ResolutionOnlyCommit ==
    (IsApply /\ ResolutionDiffers /\ ~ScalingDiffers /\ DisplayFound)
        => /\ Cardinality(Commits) = 1
           /\ DpiSets = {}
           /\ \A c \in Commits : \E q \in Queries :
                LET got  == LastCalls[q]
                    sent == LastCalls[c]
                    idx  == got.paths[FindPath(got.paths, last.display.source_id)].modeInfoIdx
                IN  /\ q < c
                    /\ sent.paths = got.paths
                    /\ Len(sent.modes) = Len(got.modes)
                    /\ \A j \in 1..Len(got.modes) :
                         IF j = idx + 1
                         THEN /\ sent.modes[j].width = last.config.width
                              /\ sent.modes[j].height = last.config.height
                              /\ sent.modes[j].infoType = got.modes[j].infoType
                         ELSE sent.modes[j] = got.modes[j]

\* C9 witness: a resolution-only apply on display 0 committed 3840x2160 with
\* the other display's source mode in the same buffer
C9_Witness ==
    /\ IsApply /\ ResolutionDiffers /\ ~ScalingDiffers
    /\ last.display.source_id = 0
    /\ last.config.width = 3840 /\ last.config.height = 2160
    /\ last.result.kind = "Ok"
    /\ last.os_changed
    /\ \E c \in Commits : Len(LastCalls[c].modes) = 4 /\ LastCalls[c].status = 0

\* C10: in an apply in which both the resolution and the scaling differ, a
\* DPI-set call comes after a commit that returned 0, with a topology re-query
\* and a DPI query between them; if the resolution update fails, apply returns
\* that failure and no DPI query or DPI-set call is issued; if the commit
\* succeeds and the scaling update fails, apply returns that failure and the
\* committed resolution stays.
C10_ResolutionThenScaling ==
    (IsApply /\ ResolutionDiffers /\ ScalingDiffers)
        => /\ \A k \in DpiSets :
                \E c \in Commits, q \in Queries, g \in DpiGets :
                    c < q /\ q < g /\ g < k /\ LastCalls[c].status = 0
           /\ (\A c \in Commits : LastCalls[c].status # 0)
                => /\ last.result.kind = "Err"
                   /\ DpiGets = {}
                   /\ DpiSets = {}
           /\ ((\E c \in Commits : LastCalls[c].status = 0)
               /\ \A k \in DpiSets : LastCalls[k].status # 0)
                => /\ last.result.kind = "Err"
                   /\ LiveMode(last.display.source_id).width = last.config.width
                   /\ LiveMode(last.display.source_id).height = last.config.height

====
